---- MODULE Spec2Model ----
(***************************************************************************)
(* Model of the HWP command-line scripts:                                  *)
(*   hwp_markdown_table.py  parse_markdown_table,                          *)
(*                          create_hwp_table_from_markdown                 *)
(*   hwp_create_table.py    create_table                                   *)
(*   hwp_template_fill.py   fill_template                                  *)
(* Text is a sequence of one-character strings.  The document automation   *)
(* session (hwpapi App) is the environment: every call into it is appended *)
(* to `calls` and either returns or raises.                                *)
(***************************************************************************)
EXTENDS Integers, Sequences, FiniteSets, TLC

VARIABLES
    prog,           \* which script function this run executes
    pc,             \* position inside that function
    calls,          \* calls issued to the automation session, in order
    result,         \* return value of the function: "none" until it returns
    output_path,    \* output_path argument (<<>> when none is given)
    markdown_text,  \* create_hwp_table_from_markdown: markdown_text argument
    table_data,     \* create_hwp_table_from_markdown: data = parse_markdown_table(..)
    rows,           \* rows (argument of create_table / len(data))
    cols,           \* cols (argument of create_table / len(data[0]))
    data,           \* data argument: create_table (None, 2D list or CSV string),
                    \* fill_template (the mapping, as its items() in order)
    rows_data,      \* create_table: rows_data
    row_idx,        \* fill loop: row index (zero-based)
    col_idx,        \* fill loop: column index (zero-based)
    template,       \* fill_template: text of the file at template_path
    template_exists,\* fill_template: template_path.exists()
    doc,            \* fill_template: text of the document open in the session
    item_idx,       \* fill_template: position in data.items() (zero-based)
    pattern_idx,    \* fill_template: position in placeholder_patterns
    replaced_count, \* fill_template: replaced_count
    report,         \* fill_template: the counters printed as totals
    run,            \* fill_template: how many times the script has been run
    args,           \* hwp_markdown_table.py main: --markdown, --input and the
                    \* text of the input file
    extracted       \* main: value returned by extract_first_markdown_table

fillVars == <<template, template_exists, doc, item_idx, pattern_idx,
              replaced_count, report, run>>

mainVars == <<args, extracted>>

vars == <<prog, pc, calls, result, output_path, markdown_text, table_data,
          rows, cols, data, rows_data, row_idx, col_idx, fillVars, mainVars>>

----------------------------------------------------------------------------
(* Bounds *)

MaxLen == 5        \* longest enumerated markdown text
MaxDim == 3        \* largest rows / cols of a destination table
MaxGridRows == 3   \* most rows of an enumerated 2D list
MaxGridCols == 3   \* most cells in a row of an enumerated 2D list
MaxCsvLen == 4     \* longest enumerated CSV text
MaxItems == 2      \* most entries of an enumerated mapping
MaxDocParts == 2   \* most fragments of an enumerated template text
MaxRuns == 2       \* how often the template script is run in a row

----------------------------------------------------------------------------
(* Characters and Python string primitives *)

Pipe == "|"
NL == "\n"
Hyphen == "-"
Colon == ":"
Space == " "

\* characters str.strip() removes and the regex class \s matches
WhiteSpace == {Space, NL, "\t", "\r"}

\* characters of the enumerated markdown texts
Alphabet == {Pipe, Hyphen, Colon, Space, NL, "a"}

Min(a, b) == IF a < b THEN a ELSE b

RECURSIVE LStripSet(_, _)
LStripSet(s, chars) ==
    IF s = <<>> THEN s
    ELSE IF Head(s) \in chars THEN LStripSet(Tail(s), chars) ELSE s

RECURSIVE RStripSet(_, _)
RStripSet(s, chars) ==
    IF s = <<>> THEN s
    ELSE IF s[Len(s)] \in chars THEN RStripSet(SubSeq(s, 1, Len(s) - 1), chars)
    ELSE s

\* str.strip(chars): removes every leading and trailing character in chars
StripSet(s, chars) == RStripSet(LStripSet(s, chars), chars)

\* str.strip()
Strip(s) == StripSet(s, WhiteSpace)

\* least index at which sep occurs in s, 0 if it does not occur
FindStr(s, sep) ==
    LET hits == {i \in 1..(Len(s) - Len(sep) + 1) :
                    SubSeq(s, i, i + Len(sep) - 1) = sep}
    IN IF hits = {} THEN 0 ELSE CHOOSE i \in hits : \A j \in hits : i <= j

\* str.split(sep): never returns an empty list
RECURSIVE Split(_, _)
Split(s, sep) ==
    LET i == FindStr(s, sep)
    IN IF i = 0 THEN <<s>>
       ELSE <<SubSeq(s, 1, i - 1)>> \o Split(SubSeq(s, i + Len(sep), Len(s)), sep)

\* [x.strip() for x in seq]
StripEach(seq) == [i \in 1..Len(seq) |-> Strip(seq[i])]

----------------------------------------------------------------------------
(* hwp_markdown_table.py: parse_markdown_table *)

\* lines = [line.strip() for line in markdown_text.strip().split('\n') if line.strip()]
NonBlankLines(text) ==
    LET raw == Split(Strip(text), <<NL>>)
        kept == SelectSeq(raw, LAMBDA line : Strip(line) # <<>>)
    IN StripEach(kept)

\* re.match(r'^\|?[\s\-:]+\|?$', line)
IsSeparatorLine(line) ==
    \E lead \in {0, 1}, trail \in {0, 1} :
        /\ Len(line) >= lead + trail + 1
        /\ lead = 1 => line[1] = Pipe
        /\ trail = 1 => line[Len(line)] = Pipe
        /\ \A i \in (1 + lead)..(Len(line) - trail) :
              line[i] \in WhiteSpace \cup {Hyphen, Colon}

\* cells = [cell.strip() for cell in line.strip('|').split('|')]
LineCells(line) == StripEach(Split(StripSet(line, {Pipe}), <<Pipe>>))

\* a parser that drops the second line as the header separator
parse_markdown_table_SkipSecond(text) ==
    LET all == NonBlankLines(text)
        lines == SelectSeq([i \in 1..Len(all) |-> <<i, all[i]>>],
                           LAMBDA p : p[1] # 2 /\ ~IsSeparatorLine(p[2]))
        rowsOf == [i \in 1..Len(lines) |-> LineCells(lines[i][2])]
    IN SelectSeq(rowsOf, LAMBDA cells : cells # <<>>)

parse_markdown_table(text) ==
    LET lines == SelectSeq(NonBlankLines(text), LAMBDA line : ~IsSeparatorLine(line))
        rowsOf == [i \in 1..Len(lines) |-> LineCells(lines[i])]
    IN SelectSeq(rowsOf, LAMBDA cells : cells # <<>>)

----------------------------------------------------------------------------
(* The automation session: one record per call issued to it *)

Call(op, a, b, s, t, ok) == [op |-> op, a |-> a, b |-> b, s |-> s, t |-> t, ok |-> ok]

TableCreateCall(r, c, ok) == Call("create_table", r, c, <<>>, <<>>, ok)
CellMoveCall(r, c, ok) == Call("move", r, c, <<>>, <<>>, ok)
CellTextCall(text, ok) == Call("set_text", 0, 0, text, <<>>, ok)
SaveAsCall(path, ok) == Call("save_as", 0, 0, path, <<>>, ok)

\* the value of output_path when the caller passes one
OutPath == <<"o">>

\* first row index >= r whose inner loop has at least one iteration, given the
\* inner loop's range for every row of the outer loop; the outer loop's range
\* if there is none
NextFillRow(r, colLimits) ==
    LET cand == {q \in r..(Len(colLimits) - 1) : colLimits[q + 1] > 0}
    IN IF cand = {} THEN Len(colLimits) ELSE CHOOSE q \in cand : \A p \in cand : q <= p

----------------------------------------------------------------------------
(* hwp_markdown_table.py: create_hwp_table_from_markdown *)

\* the README / docstring example  "| A | B |\n|---|---|\n| 1 | 2 |"
ExampleTable ==
    <<"|", " ", "A", " ", "|", " ", "B", " ", "|", "\n", "|", "-", "-", "-",
      "|", "-", "-", "-", "|", "\n", "|", " ", "1", " ", "|", " ", "2", " ",
      "|">>

MarkdownTexts == UNION {[1..n -> Alphabet] : n \in 0..MaxLen} \cup {ExampleTable}

\* for row_idx, row_data in enumerate(data)
MdRowLimit == Len(table_data)

\* for col_idx, cell_text in enumerate(row_data)
MdColLimit(r) == Len(table_data[r + 1])

MdColLimits == [q \in 1..MdRowLimit |-> MdColLimit(q - 1)]

InitMd ==
    /\ prog = "markdown"
    /\ args = <<>>
    /\ extracted = <<>>
    /\ template = <<>>
    /\ template_exists = FALSE
    /\ doc = <<>>
    /\ item_idx = 0
    /\ pattern_idx = 0
    /\ replaced_count = 0
    /\ report = {}
    /\ run = 1
    /\ pc = "import"
    /\ calls = <<>>
    /\ result = "none"
    /\ output_path \in {<<>>, OutPath}
    /\ markdown_text \in MarkdownTexts
    /\ table_data = <<>>
    /\ rows = 0
    /\ cols = 0
    /\ data = <<>>
    /\ rows_data = <<>>
    /\ row_idx = 0
    /\ col_idx = 0

\* an exception reaches the function's except clause: return False
Raise ==
    /\ result' = "False"
    /\ pc' = "raised"

\* from hwpapi.core import App
MdImport ==
    /\ prog = "markdown" /\ pc = "import"
    /\ UNCHANGED mainVars
    /\ UNCHANGED fillVars
    /\ \/ pc' = "parse" /\ UNCHANGED result
       \/ Raise
    /\ UNCHANGED <<prog, calls, output_path, markdown_text, table_data, rows, cols,
                   data, rows_data, row_idx, col_idx>>

\* data = parse_markdown_table(markdown_text); if not data: return False
MdParse ==
    /\ prog = "markdown" /\ pc = "parse"
    /\ UNCHANGED mainVars
    /\ UNCHANGED fillVars
    /\ table_data' = parse_markdown_table(markdown_text)
    /\ IF table_data' = <<>>
       THEN /\ result' = "False"
            /\ pc' = "done"
            /\ UNCHANGED <<rows, cols>>
       ELSE /\ rows' = Len(table_data')
            /\ cols' = Len(table_data'[1])
            /\ pc' = "new_app"
            /\ UNCHANGED result
    /\ UNCHANGED <<prog, calls, output_path, markdown_text, data, rows_data,
                   row_idx, col_idx>>

\* app = App(new_app=True, is_visible=visible)
MdNewApp ==
    /\ prog = "markdown" /\ pc = "new_app"
    /\ UNCHANGED mainVars
    /\ UNCHANGED fillVars
    /\ \/ pc' = "create" /\ UNCHANGED result
       \/ Raise
    /\ UNCHANGED <<prog, calls, output_path, markdown_text, table_data, rows, cols,
                   data, rows_data, row_idx, col_idx>>

\* app.table.create(rows=rows, cols=cols), then the loop is entered
MdTableCreate ==
    /\ prog = "markdown" /\ pc = "create"
    /\ UNCHANGED mainVars
    /\ UNCHANGED fillVars
    /\ \E ok \in BOOLEAN :
        /\ calls' = Append(calls, TableCreateCall(rows, cols, ok))
        /\ IF ok
           THEN /\ row_idx' = NextFillRow(0, MdColLimits)
                /\ col_idx' = 0
                /\ pc' = IF row_idx' < MdRowLimit THEN "move" ELSE "save"
                /\ UNCHANGED result
           ELSE Raise /\ UNCHANGED <<row_idx, col_idx>>
    /\ UNCHANGED <<prog, output_path, markdown_text, table_data, rows, cols,
                   data, rows_data>>

\* app.cell.move(row_idx, col_idx)
MdCellMove ==
    /\ prog = "markdown" /\ pc = "move"
    /\ UNCHANGED mainVars
    /\ UNCHANGED fillVars
    /\ \E ok \in BOOLEAN :
        /\ calls' = Append(calls, CellMoveCall(row_idx, col_idx, ok))
        /\ IF ok THEN pc' = "text" /\ UNCHANGED result ELSE Raise
    /\ UNCHANGED <<prog, output_path, markdown_text, table_data, rows, cols,
                   data, rows_data, row_idx, col_idx>>

\* app.cell.text = cell_text, then the next iteration of the loops
MdCellText ==
    /\ prog = "markdown" /\ pc = "text"
    /\ UNCHANGED mainVars
    /\ UNCHANGED fillVars
    /\ \E ok \in BOOLEAN :
        /\ calls' = Append(calls, CellTextCall(table_data[row_idx + 1][col_idx + 1], ok))
        /\ IF ok
           THEN /\ IF col_idx + 1 < MdColLimit(row_idx)
                   THEN row_idx' = row_idx /\ col_idx' = col_idx + 1
                   ELSE /\ row_idx' = NextFillRow(row_idx + 1, MdColLimits)
                        /\ col_idx' = 0
                /\ pc' = IF row_idx' < MdRowLimit THEN "move" ELSE "save"
                /\ UNCHANGED result
           ELSE Raise /\ UNCHANGED <<row_idx, col_idx>>
    /\ UNCHANGED <<prog, output_path, markdown_text, table_data, rows, cols,
                   data, rows_data>>

\* if output_path: app.save_as(str(output_path)); return True
MdSave ==
    /\ prog = "markdown" /\ pc = "save"
    /\ UNCHANGED mainVars
    /\ UNCHANGED fillVars
    /\ IF output_path # <<>>
       THEN \E ok \in BOOLEAN :
              /\ calls' = Append(calls, SaveAsCall(output_path, ok))
              /\ IF ok THEN result' = "True" /\ pc' = "done" ELSE Raise
       ELSE /\ result' = "True"
            /\ pc' = "done"
            /\ UNCHANGED calls
    /\ UNCHANGED <<prog, output_path, markdown_text, table_data, rows, cols,
                   data, rows_data, row_idx, col_idx>>

NextMd ==
    \/ MdImport
    \/ MdParse
    \/ MdNewApp
    \/ MdTableCreate
    \/ MdCellMove
    \/ MdCellText
    \/ MdSave

SpecMd == InitMd /\ [][NextMd]_vars

----------------------------------------------------------------------------
(* hwp_create_table.py: main, parse_data_string, create_table *)

Comma == ","

\* the two-character row delimiter: a backslash followed by the letter n
EscNL == <<"\\", "n">>

DigitChars == <<"0", "1", "2", "3", "4", "5", "6", "7", "8", "9">>

\* a ragged 2D list with the given row lengths; the cell at (r, c) holds the
\* two digits of its zero-based coordinates
GridOfShape(lens) ==
    [r \in 1..Len(lens) |-> [c \in 1..lens[r] |-> <<DigitChars[r], DigitChars[c]>>]]

Grids ==
    {GridOfShape(lens) : lens \in UNION {[1..k -> 0..MaxGridCols] : k \in 0..MaxGridRows}}

CsvAlphabet == {Comma, "\\", "n", "x", Space}

\* the docstring example  --data "Name,Age\nJohn,25\nJane,30"
ExampleCsv ==
    <<"N", "a", "m", "e", ",", "A", "g", "e", "\\", "n", "J", "o", "h", "n",
      ",", "2", "5", "\\", "n", "J", "a", "n", "e", ",", "3", "0">>

CsvTexts == UNION {[1..n -> CsvAlphabet] : n \in 0..MaxCsvLen} \cup {ExampleCsv}

NoData == [kind |-> "none", list |-> <<>>, str |-> <<>>]
ListData(grid) == [kind |-> "list", list |-> grid, str |-> <<>>]
StrData(text) == [kind |-> "str", list |-> <<>>, str |-> text]

\* truth value of  `if data:`
Truthy(d) ==
    \/ d.kind = "list" /\ d.list # <<>>
    \/ d.kind = "str" /\ d.str # <<>>

\* parse_data_string: None for an empty string, else rows of stripped cells
parse_data_string(data_str) ==
    IF data_str = <<>> THEN NoData
    ELSE LET rws == Split(Strip(data_str), EscNL)
         IN ListData([i \in 1..Len(rws) |-> StripEach(Split(rws[i], <<Comma>>))])

\* rows_data = [row.split(',') for row in data.strip().split('\\n')], or data
RowsData(d) ==
    IF d.kind = "str"
    THEN LET rws == Split(Strip(d.str), EscNL)
         IN [i \in 1..Len(rws) |-> Split(rws[i], <<Comma>>)]
    ELSE d.list

\* a fill loop that runs over every row of the data
RowRange_NoClamp(grid, rws) == Len(grid)

\* range(min(len(rows_data), rows))
RowRange(grid, rws) == Min(Len(grid), rws)

\* a fill loop that runs over every cell of a row
ColRange_NoClamp(grid, r, cls) == Len(grid[r + 1])

\* range(min(len(rows_data[row_idx]), cols))
ColRange(grid, r, cls) == Min(Len(grid[r + 1]), cls)

\* the inner range for every row index of the outer range
ColRanges(grid, rws, cls) == [q \in 1..RowRange(grid, rws) |-> ColRange(grid, q - 1, cls)]

InitTbl ==
    /\ prog = "create_table"
    /\ args = <<>>
    /\ extracted = <<>>
    /\ template = <<>>
    /\ template_exists = FALSE
    /\ doc = <<>>
    /\ item_idx = 0
    /\ pattern_idx = 0
    /\ replaced_count = 0
    /\ report = {}
    /\ run = 1
    /\ calls = <<>>
    /\ result = "none"
    /\ output_path \in {<<>>, OutPath}
    /\ markdown_text = <<>>
    /\ table_data = <<>>
    /\ rows_data = <<>>
    /\ row_idx = 0
    /\ col_idx = 0
    /\ \/ \* the command line: --rows, --cols, --data
          /\ pc = "main"
          /\ rows \in 0..MaxDim
          /\ cols \in 0..MaxDim
          /\ data \in {StrData(t) : t \in CsvTexts}
       \/ \* a caller of create_table with a declared (positive) shape
          /\ pc = "import"
          /\ rows \in 1..MaxDim
          /\ cols \in 1..MaxDim
          /\ data \in {NoData} \cup {ListData(g) : g \in Grids}
                      \cup {StrData(t) : t \in CsvTexts}

\* main: validate the dimensions, parse --data, call create_table
TblMain ==
    /\ prog = "create_table" /\ pc = "main"
    /\ UNCHANGED mainVars
    /\ UNCHANGED fillVars
    /\ IF rows <= 0 \/ cols <= 0
       THEN /\ result' = "exit1"
            /\ pc' = "exit"
            /\ UNCHANGED data
       ELSE /\ data' = parse_data_string(data.str)
            /\ pc' = "import"
            /\ UNCHANGED result
    /\ UNCHANGED <<prog, calls, output_path, markdown_text, table_data, rows, cols,
                   rows_data, row_idx, col_idx>>

\* from hwpapi.core import App
TblImport ==
    /\ prog = "create_table" /\ pc = "import"
    /\ UNCHANGED mainVars
    /\ UNCHANGED fillVars
    /\ \/ pc' = "new_app" /\ UNCHANGED result
       \/ Raise
    /\ UNCHANGED <<prog, calls, output_path, markdown_text, table_data, rows, cols,
                   data, rows_data, row_idx, col_idx>>

\* app = App(new_app=True, is_visible=visible)
TblNewApp ==
    /\ prog = "create_table" /\ pc = "new_app"
    /\ UNCHANGED mainVars
    /\ UNCHANGED fillVars
    /\ \/ pc' = "create" /\ UNCHANGED result
       \/ Raise
    /\ UNCHANGED <<prog, calls, output_path, markdown_text, table_data, rows, cols,
                   data, rows_data, row_idx, col_idx>>

\* app.table.create(rows=rows, cols=cols); if data: rows_data = ...; the
\* loops are entered
TblTableCreate ==
    /\ prog = "create_table" /\ pc = "create"
    /\ UNCHANGED mainVars
    /\ UNCHANGED fillVars
    /\ \E ok \in BOOLEAN :
        /\ calls' = Append(calls, TableCreateCall(rows, cols, ok))
        /\ IF ok
           THEN /\ rows_data' = IF Truthy(data) THEN RowsData(data) ELSE <<>>
                /\ row_idx' = NextFillRow(0, ColRanges(rows_data', rows, cols))
                /\ col_idx' = 0
                /\ pc' = IF row_idx' < RowRange(rows_data', rows) THEN "move" ELSE "save"
                /\ UNCHANGED result
           ELSE Raise /\ UNCHANGED <<rows_data, row_idx, col_idx>>
    /\ UNCHANGED <<prog, output_path, markdown_text, table_data, rows, cols, data>>

\* app.cell.move(row_idx, col_idx)
TblCellMove ==
    /\ prog = "create_table" /\ pc = "move"
    /\ UNCHANGED mainVars
    /\ UNCHANGED fillVars
    /\ \E ok \in BOOLEAN :
        /\ calls' = Append(calls, CellMoveCall(row_idx, col_idx, ok))
        /\ IF ok THEN pc' = "text" /\ UNCHANGED result ELSE Raise
    /\ UNCHANGED <<prog, output_path, markdown_text, table_data, rows, cols,
                   data, rows_data, row_idx, col_idx>>

\* app.cell.text = str(cell_text), then the next iteration of the loops
TblCellText ==
    /\ prog = "create_table" /\ pc = "text"
    /\ UNCHANGED mainVars
    /\ UNCHANGED fillVars
    /\ \E ok \in BOOLEAN :
        /\ calls' = Append(calls, CellTextCall(rows_data[row_idx + 1][col_idx + 1], ok))
        /\ IF ok
           THEN /\ IF col_idx + 1 < ColRange(rows_data, row_idx, cols)
                   THEN row_idx' = row_idx /\ col_idx' = col_idx + 1
                   ELSE /\ row_idx' = NextFillRow(row_idx + 1,
                                                  ColRanges(rows_data, rows, cols))
                        /\ col_idx' = 0
                /\ pc' = IF row_idx' < RowRange(rows_data, rows) THEN "move" ELSE "save"
                /\ UNCHANGED result
           ELSE Raise /\ UNCHANGED <<row_idx, col_idx>>
    /\ UNCHANGED <<prog, output_path, markdown_text, table_data, rows, cols,
                   data, rows_data>>

\* if output_path: app.save_as(str(output_path)); return True
TblSave ==
    /\ prog = "create_table" /\ pc = "save"
    /\ UNCHANGED mainVars
    /\ UNCHANGED fillVars
    /\ IF output_path # <<>>
       THEN \E ok \in BOOLEAN :
              /\ calls' = Append(calls, SaveAsCall(output_path, ok))
              /\ IF ok THEN result' = "True" /\ pc' = "done" ELSE Raise
       ELSE /\ result' = "True"
            /\ pc' = "done"
            /\ UNCHANGED calls
    /\ UNCHANGED <<prog, output_path, markdown_text, table_data, rows, cols,
                   data, rows_data, row_idx, col_idx>>

NextTbl ==
    \/ TblMain
    \/ TblImport
    \/ TblNewApp
    \/ TblTableCreate
    \/ TblCellMove
    \/ TblCellText
    \/ TblSave

SpecTbl == InitTbl /\ [][NextTbl]_vars

----------------------------------------------------------------------------
(* hwp_template_fill.py: fill_template *)

OpenCall(path, ok) == Call("open", 0, 0, path, <<>>, ok)
ReplaceAllCall(pattern, replacement, ok) == Call("replace_all", 0, 0, pattern, replacement, ok)

\* the session's find-and-replace-all on literal text: every occurrence, left
\* to right, without rescanning what was inserted
RECURSIVE ReplaceAll(_, _, _)
ReplaceAll(text, pattern, replacement) ==
    LET i == FindStr(text, pattern)
    IN IF i = 0 THEN text
       ELSE SubSeq(text, 1, i - 1) \o replacement
            \o ReplaceAll(SubSeq(text, i + Len(pattern), Len(text)), pattern, replacement)

\* decimal digits of a natural number
RECURSIVE Digits(_)
Digits(n) ==
    IF n < 10 THEN <<DigitChars[n + 1]>>
    ELSE Digits(n \div 10) \o <<DigitChars[(n % 10) + 1]>>

\* str(value): a string is returned as it is, a number as its decimal text
Str(value) ==
    IF value.kind = "int"
    THEN IF value.n < 0 THEN <<Hyphen>> \o Digits(0 - value.n) ELSE Digits(value.n)
    ELSE value.s

\* only the tight form is tried
placeholder_patterns_TightOnly(placeholder) ==
    << <<"{", "{">> \o placeholder \o <<"}", "}">>,
       <<"{", "{">> \o placeholder \o <<"}", "}">> >>

\* [f"{{{{{placeholder}}}}}", f"{{{{ {placeholder} }}}}"]
placeholder_patterns(placeholder) ==
    << <<"{", "{">> \o placeholder \o <<"}", "}">>,
       <<"{", "{", Space>> \o placeholder \o <<Space, "}", "}">> >>

\* every call is counted, failed or not
NextCount_Attempts(count, ok, before, after) == count + 1

\* only calls that changed the document are counted
NextCount_Changed(count, ok, before, after) ==
    IF ok /\ before # after THEN count + 1 ELSE count

\* replaced_count += 1 follows app.replace_all inside the try block
NextCount(count, ok, before, after) == IF ok THEN count + 1 ELSE count

\* a failed replace_all ends the function
OnReplaceError_Propagate == "raise"

\* except Exception as e: print a warning; the loop goes on
OnReplaceError == "continue"

TemplatePath == <<"t">>

Keys == {<<"k">>, <<"j">>}

\* a mapping value: a string, or a number as json.load returns it
StrValue(text) == [kind |-> "str", s |-> text, n |-> 0]
IntValue(number) == [kind |-> "int", s |-> <<>>, n |-> number]

Values == {StrValue(<<"v">>), IntValue(25), StrValue(<<"{", "{", "j", "}", "}">>)}

\* the docstring example  --data company:"ABC Corp"
ExampleMapping ==
    << <<<<"c", "o", "m", "p", "a", "n", "y">>,
         StrValue(<<"A", "B", "C", " ", "C", "o", "r", "p">>)>> >>

\* ordered mappings with unique keys
Mappings ==
    {m \in UNION {[1..n -> Keys \X Values] : n \in 0..MaxItems} :
        \A i, j \in 1..Len(m) : i # j => m[i][1] # m[j][1]}
    \cup {ExampleMapping}

DocParts ==
    {<<"x">>, <<"{", "{", "k", "}", "}">>, <<"{", "{", Space, "k", Space, "}", "}">>,
     <<"{", "{", "j", "}", "}">>, <<"{", "{", "c", "o", "m", "p", "a", "n", "y", "}", "}">>}

RECURSIVE Concat(_)
Concat(parts) == IF parts = <<>> THEN <<>> ELSE Head(parts) \o Concat(Tail(parts))

TemplateTexts == {Concat(ps) : ps \in UNION {[1..n -> DocParts] : n \in 0..MaxDocParts}}

InitFill ==
    /\ prog = "fill_template"
    /\ args = <<>>
    /\ extracted = <<>>
    /\ pc = "import"
    /\ calls = <<>>
    /\ result = "none"
    /\ output_path = OutPath
    /\ markdown_text = <<>>
    /\ table_data = <<>>
    /\ rows = 0
    /\ cols = 0
    /\ data \in Mappings
    /\ rows_data = <<>>
    /\ row_idx = 0
    /\ col_idx = 0
    /\ \/ template_exists = TRUE /\ template \in TemplateTexts
       \/ template_exists = FALSE /\ template = <<>>
    /\ doc = <<>>
    /\ item_idx = 0
    /\ pattern_idx = 0
    /\ replaced_count = 0
    /\ report = {}
    /\ run = 1

tableVars == <<markdown_text, table_data, rows, cols, rows_data, row_idx, col_idx>>

\* from hwpapi.core import App
FillImport ==
    /\ prog = "fill_template" /\ pc = "import"
    /\ UNCHANGED mainVars
    /\ \/ pc' = "new_app" /\ UNCHANGED result
       \/ Raise
    /\ UNCHANGED <<prog, calls, output_path, data, tableVars, fillVars>>

\* app = App(is_visible=visible)
FillNewApp ==
    /\ prog = "fill_template" /\ pc = "new_app"
    /\ UNCHANGED mainVars
    /\ \/ pc' = "exists" /\ UNCHANGED result
       \/ Raise
    /\ UNCHANGED <<prog, calls, output_path, data, tableVars, fillVars>>

\* if not template_path.exists(): return False
FillCheckTemplate ==
    /\ prog = "fill_template" /\ pc = "exists"
    /\ UNCHANGED mainVars
    /\ IF template_exists
       THEN pc' = "open" /\ UNCHANGED result
       ELSE result' = "False" /\ pc' = "done"
    /\ UNCHANGED <<prog, calls, output_path, data, tableVars, fillVars>>

\* app.open(str(template_path)); replaced_count = 0; the loops are entered
FillOpen ==
    /\ prog = "fill_template" /\ pc = "open"
    /\ UNCHANGED mainVars
    /\ \E ok \in BOOLEAN :
        /\ calls' = Append(calls, OpenCall(TemplatePath, ok))
        /\ IF ok
           THEN /\ doc' = template
                /\ replaced_count' = 0
                /\ item_idx' = 0
                /\ pattern_idx' = 0
                /\ pc' = IF data # <<>> THEN "replace" ELSE "save"
                /\ UNCHANGED result
           ELSE Raise /\ UNCHANGED <<doc, replaced_count, item_idx, pattern_idx>>
    /\ UNCHANGED <<prog, output_path, data, tableVars, template, template_exists,
                   report, run>>

\* try: app.replace_all(pattern, str(value)); replaced_count += 1
\* except Exception: warning; then the next pattern or the next item
FillReplace ==
    /\ prog = "fill_template" /\ pc = "replace"
    /\ UNCHANGED mainVars
    /\ LET placeholder == data[item_idx + 1][1]
           value == data[item_idx + 1][2]
           pattern == placeholder_patterns(placeholder)[pattern_idx + 1]
       IN \E ok \in BOOLEAN :
            /\ calls' = Append(calls, ReplaceAllCall(pattern, Str(value), ok))
            /\ doc' = IF ok THEN ReplaceAll(doc, pattern, Str(value)) ELSE doc
            /\ replaced_count' = NextCount(replaced_count, ok, doc, doc')
            /\ IF ok \/ OnReplaceError = "continue"
               THEN /\ IF pattern_idx + 1 < Len(placeholder_patterns(placeholder))
                       THEN item_idx' = item_idx /\ pattern_idx' = pattern_idx + 1
                       ELSE item_idx' = item_idx + 1 /\ pattern_idx' = 0
                    /\ pc' = IF item_idx' < Len(data) THEN "replace" ELSE "save"
                    /\ UNCHANGED result
               ELSE Raise /\ UNCHANGED <<item_idx, pattern_idx>>
    /\ UNCHANGED <<prog, output_path, data, tableVars, template, template_exists,
                   report, run>>

\* print(f"Total replacements: {replaced_count}"); app.save_as(str(output_path));
\* return True
FillSave ==
    /\ prog = "fill_template" /\ pc = "save"
    /\ UNCHANGED mainVars
    /\ report' = {<<"applied", replaced_count>>}
    /\ \E ok \in BOOLEAN :
        /\ calls' = Append(calls, SaveAsCall(output_path, ok))
        /\ IF ok THEN result' = "True" /\ pc' = "done" ELSE Raise
    /\ UNCHANGED <<prog, output_path, data, tableVars, template, template_exists,
                   doc, item_idx, pattern_idx, replaced_count, run>>

\* the script is run again with the same data on the document it has saved
FillRerun ==
    /\ prog = "fill_template" /\ pc = "done" /\ result = "True"
    /\ UNCHANGED mainVars
    /\ run < MaxRuns
    /\ run' = run + 1
    /\ template' = doc
    /\ template_exists' = TRUE
    /\ doc' = <<>>
    /\ calls' = <<>>
    /\ result' = "none"
    /\ pc' = "import"
    /\ item_idx' = 0
    /\ pattern_idx' = 0
    /\ replaced_count' = 0
    /\ report' = {}
    /\ UNCHANGED <<prog, output_path, data, tableVars>>

NextFill ==
    \/ FillImport
    \/ FillNewApp
    \/ FillCheckTemplate
    \/ FillOpen
    \/ FillReplace
    \/ FillSave
    \/ FillRerun

SpecFill == InitFill /\ [][NextFill]_vars

----------------------------------------------------------------------------
(* hwp_markdown_table.py: extract_first_markdown_table, main *)

NotFound == [found |-> FALSE, text |-> <<>>]
Found(text) == [found |-> TRUE, text |-> text]

\* where ^ matches under re.MULTILINE
AtLineStart(text, i) == i = 1 \/ text[i - 1] = NL

\* one repetition  \|[^\n]+\|?\n  tried at position i: the index of the
\* newline that ends it, 0 if it does not match there
TableLineEnd(text, i) ==
    IF i > Len(text) \/ text[i] # Pipe THEN 0
    ELSE LET nls == {j \in (i + 1)..Len(text) : text[j] = NL}
         IN IF nls = {} THEN 0
            ELSE LET j == CHOOSE j \in nls : \A k \in nls : j <= k
                 IN IF j >= i + 2 THEN j ELSE 0

\* the greedy  (?: ... )+  from position i: the index of the last character
\* matched, i - 1 if no repetition matches at i
RECURSIVE TableRunEnd(_, _)
TableRunEnd(text, i) ==
    LET j == TableLineEnd(text, i)
    IN IF j = 0 THEN i - 1 ELSE TableRunEnd(text, j + 1)

\* matches = re.findall(r'(?:^\|[^\n]+\|?\n)+', text, re.MULTILINE);
\* matches[0] if matches else None
extract_first_markdown_table(text) ==
    LET starts == {i \in 1..Len(text) :
                      AtLineStart(text, i) /\ TableLineEnd(text, i) # 0}
    IN IF starts = {} THEN NotFound
       ELSE LET i == CHOOSE i \in starts : \A k \in starts : i <= k
            IN Found(SubSeq(text, i, TableRunEnd(text, i)))

\* the docstring example as typed on the command line, with \n spelled out:
\* --markdown "| A | B |\n|---|---|\n| 1 | 2 |"
ExampleTableEscaped == ReplaceAll(ExampleTable, <<NL>>, EscNL)

\* a file holding prose, then a two-row table, without a final newline
ExampleFile ==
    <<"t", "e", "x", "t", "\n", "|", " ", "A", " ", "|", "\n",
      "|", " ", "1", " ", "|">>

MainTexts == MarkdownTexts \cup {ExampleTableEscaped, ExampleFile}

\* --markdown TEXT
MarkdownArg(text) == [markdown |-> text, input |-> "none", content |-> <<>>]

\* --input FILE, the file holding text
InputArg(text) == [markdown |-> <<>>, input |-> "file", content |-> text]

\* --input FILE, the file missing
MissingInputArg == [markdown |-> <<>>, input |-> "missing", content |-> <<>>]

InitMain ==
    /\ prog = "markdown"
    /\ pc = "main"
    /\ args \in {MarkdownArg(t) : t \in MainTexts} \cup {InputArg(t) : t \in MainTexts}
                \cup {MissingInputArg}
    /\ extracted = <<>>
    /\ calls = <<>>
    /\ result = "none"
    /\ output_path \in {<<>>, OutPath}
    /\ markdown_text = <<>>
    /\ table_data = <<>>
    /\ rows = 0
    /\ cols = 0
    /\ data = <<>>
    /\ rows_data = <<>>
    /\ row_idx = 0
    /\ col_idx = 0
    /\ template = <<>>
    /\ template_exists = FALSE
    /\ doc = <<>>
    /\ item_idx = 0
    /\ pattern_idx = 0
    /\ replaced_count = 0
    /\ report = {}
    /\ run = 1

\* main: take --markdown, or read --input and extract its first table (the
\* whole content if none is found); replace the two characters \n by a
\* newline; call create_hwp_table_from_markdown
MdMain ==
    /\ prog = "markdown" /\ pc = "main"
    /\ IF args.markdown # <<>>
       THEN /\ markdown_text' = ReplaceAll(args.markdown, EscNL, <<NL>>)
            /\ pc' = "import"
            /\ UNCHANGED <<extracted, result>>
       ELSE IF args.input = "file"
       THEN /\ extracted' = extract_first_markdown_table(args.content)
            /\ markdown_text' =
                  ReplaceAll(IF extracted'.found /\ extracted'.text # <<>>
                             THEN extracted'.text ELSE args.content,
                             EscNL, <<NL>>)
            /\ pc' = "import"
            /\ UNCHANGED result
       ELSE /\ result' = "exit1"
            /\ pc' = "exit"
            /\ UNCHANGED <<extracted, markdown_text>>
    /\ UNCHANGED <<prog, calls, output_path, table_data, rows, cols, data,
                   rows_data, row_idx, col_idx, args, fillVars>>

NextMain ==
    \/ MdMain
    \/ NextMd

SpecMain == InitMain /\ [][NextMain]_vars

----------------------------------------------------------------------------
(* Properties of parse_markdown_table, read off the state after             *)
(* create_hwp_table_from_markdown has run it                                *)

\* parse_markdown_table has returned in this run
Parsed == prog = "markdown" /\ (pc = "done" \/ rows > 0)

\* a row whose cells hold only hyphens, colons and whitespace, with at least
\* one hyphen: exactly the rows that stem from a line such as |---|---| or
\* |:--:|---|
SeparatorCells(row) ==
    /\ \A i \in 1..Len(row) : \A j \in 1..Len(row[i]) :
          row[i][j] \in WhiteSpace \cup {Hyphen, Colon}
    /\ \E i \in 1..Len(row) : \E j \in 1..Len(row[i]) : row[i][j] = Hyphen

\* C1: no pure separator row (a line of pipes, hyphens, colons and whitespace
\* only, read here as having at least one hyphen) appears in the Grid,
\* wherever the line stands in the input; the three lines | A | B |,
\* |---|---|, | 1 | 2 | parse to [["A","B"],["1","2"]].
C1_SeparatorRowsExcluded ==
    Parsed =>
        /\ \A i \in 1..Len(table_data) : ~SeparatorCells(table_data[i])
        /\ markdown_text = ExampleTable =>
              table_data = << <<<<"A">>, <<"B">>>>, <<<<"1">>, <<"2">>>> >>

\* the cells of a line after removing exactly one optional leading pipe and
\* exactly one optional trailing pipe, each segment trimmed
OnePipeCells(line) ==
    LET a == IF line # <<>> /\ Head(line) = Pipe THEN Tail(line) ELSE line
        b == IF a # <<>> /\ a[Len(a)] = Pipe THEN SubSeq(a, 1, Len(a) - 1) ELSE a
    IN StripEach(Split(b, <<Pipe>>))

\* C2: the Grid has one row per non-blank, non-separator line (separator as
\* the parser's own pattern recognises it), in input order, and each row
\* holds the trimmed pipe-delimited segments of its line after removing
\* exactly one optional leading and one optional trailing pipe (a line with
\* two leading pipes keeps an empty first cell).
C2_RowsAndCellsPerLine ==
    Parsed =>
        LET lines == SelectSeq(NonBlankLines(markdown_text),
                               LAMBDA line : ~IsSeparatorLine(line))
        IN /\ Len(table_data) = Len(lines)
           /\ \A i \in 1..Len(lines) : table_data[i] = OnePipeCells(lines[i])

\* '|'.join(cells) for one row
RECURSIVE JoinSeq(_, _)
JoinSeq(parts, sep) ==
    IF parts = <<>> THEN <<>>
    ELSE IF Len(parts) = 1 THEN parts[1]
    ELSE parts[1] \o sep \o JoinSeq(Tail(parts), sep)

\* cells of a row joined with `|`, rows joined with newline
Serialize(grid) == JoinSeq([i \in 1..Len(grid) |-> JoinSeq(grid[i], <<Pipe>>)], <<NL>>)

\* C3 as stated: serializing any produced Grid and parsing it again returns
\* the same Grid.
C3_RoundTripAnyGrid ==
    Parsed => parse_markdown_table(Serialize(table_data)) = table_data

\* every row starts and ends with a non-empty cell and no single-cell row is
\* made only of hyphens, colons and whitespace
CleanGrid(grid) ==
    \A i \in 1..Len(grid) :
        /\ grid[i][1] # <<>>
        /\ grid[i][Len(grid[i])] # <<>>
        /\ Len(grid[i]) = 1 =>
              \E j \in 1..Len(grid[i][1]) :
                  grid[i][1][j] \notin WhiteSpace \cup {Hyphen, Colon}

\* C3 amended: the round trip holds for every produced Grid whose rows start
\* and end with a non-empty cell and have no single-cell row made only of
\* hyphens, colons and whitespace.
C3_RoundTripCleanGrid ==
    (Parsed /\ CleanGrid(table_data)) =>
        parse_markdown_table(Serialize(table_data)) = table_data

C3_Witness ==
    /\ Parsed
    /\ CleanGrid(table_data)
    /\ Len(table_data) >= 2
    /\ \E i \in 1..Len(table_data) : Len(table_data[i]) >= 2

\* C8: an empty, whitespace-only or table-less source (no pipe-delimited row)
\* parses to the empty Grid and create_hwp_table_from_markdown returns False
\* without any create-table, move-to-cell, set-cell-text or save-as call.
C8_TableLessSourceFails ==
    (prog = "markdown" /\ \A i \in 1..Len(markdown_text) : markdown_text[i] # Pipe) =>
        /\ Parsed => table_data = <<>>
        /\ calls = <<>>
        /\ pc = "done" => result = "False"

----------------------------------------------------------------------------
(* Properties of create_table *)

\* C4: whatever the Grid (ragged or not) and the positive destination shape,
\* (1,1) included, no move-to-cell addresses a row >= rows or a column >= cols,
\* and every set-cell-text writes the cell just moved to.
C4_FillStaysInsideShape ==
    prog = "create_table" =>
        \A i \in 1..Len(calls) :
            /\ calls[i].op = "move" => calls[i].a < rows /\ calls[i].b < cols
            /\ calls[i].op = "set_text" =>
                  /\ i > 1
                  /\ calls[i - 1].op = "move"
                  /\ calls[i - 1].a < rows
                  /\ calls[i - 1].b < cols

\* a Grid larger than the (1,1) table in both directions has been filled
C4_Witness ==
    /\ prog = "create_table"
    /\ result = "True"
    /\ rows = 1 /\ cols = 1
    /\ Len(rows_data) > 1
    /\ Len(rows_data[1]) > 1
    /\ \E i \in 1..Len(calls) : calls[i].op = "set_text"

\* the Grid handed to the filler
GridOf(d) == IF Truthy(d) THEN RowsData(d) ELSE <<>>

\* the cells (r, c) with r < min(len(grid), rws) and c < min(len(grid[r]), cls),
\* in row-major order, from row r on
RECURSIVE CellsFrom(_, _, _, _)
CellsFrom(grid, rws, cls, r) ==
    IF r >= Len(grid) \/ r >= rws THEN <<>>
    ELSE [c \in 1..(IF Len(grid[r + 1]) < cls THEN Len(grid[r + 1]) ELSE cls) |-> <<r, c - 1>>]
         \o CellsFrom(grid, rws, cls, r + 1)

\* create-table, then move-to-cell / set-cell-text per cell, then save-as if
\* an output path was given
ExpectedCalls(grid, rws, cls, path) ==
    LET cells == CellsFrom(grid, rws, cls, 0)
        fill == [i \in 1..(2 * Len(cells)) |->
                    LET cell == cells[(i + 1) \div 2]
                    IN IF i % 2 = 1
                       THEN CellMoveCall(cell[1], cell[2], TRUE)
                       ELSE CellTextCall(grid[cell[1] + 1][cell[2] + 1], TRUE)]
    IN <<TableCreateCall(rws, cls, TRUE)>> \o fill
       \o (IF path # <<>> THEN <<SaveAsCall(path, TRUE)>> ELSE <<>>)

\* C10: after the single create-table(rows, cols) call, create_table emits
\* exactly one move-to-cell(r, c) immediately followed by
\* set-cell-text(grid[r][c]) for every r < min(len(grid), rows) and
\* c < min(len(grid[r]), cols), in row-major order, and nothing else before
\* save (a run cut short by a failing call has issued a prefix of this); a
\* 3x3 Grid into a (2,2) table writes only the top-left 2x2 subgrid, and the
\* CSV text Name,Age / John,25 / Jane,30 into a 3x2 table puts "Name" at
\* (0,0), "25" at (1,1) and "30" at (2,1).
C10_FillSequence ==
    (prog = "create_table" /\ pc \notin {"main", "exit"}) =>
        LET exp == ExpectedCalls(GridOf(data), rows, cols, output_path)
            beforeSave == Len(exp) - (IF output_path # <<>> THEN 1 ELSE 0)
        IN /\ Len(calls) <= Len(exp)
           /\ \A i \in 1..Len(calls) : [calls[i] EXCEPT !.ok = TRUE] = exp[i]
           /\ pc = "save" => Len(calls) = beforeSave
           /\ result = "True" => calls = exp
           /\ (result = "True" /\ rows = 2 /\ cols = 2
                  /\ data = ListData(GridOfShape(<<3, 3, 3>>))) =>
                 /\ {<<calls[i].a, calls[i].b>> :
                        i \in {j \in 1..Len(calls) : calls[j].op = "move"}}
                      = {<<0, 0>>, <<0, 1>>, <<1, 0>>, <<1, 1>>}
                 /\ Cardinality({j \in 1..Len(calls) : calls[j].op = "set_text"}) = 4
           /\ (result = "True" /\ rows = 3 /\ cols = 2
                  /\ data \in {StrData(ExampleCsv), parse_data_string(ExampleCsv)}) =>
                 /\ calls[2] = CellMoveCall(0, 0, TRUE)
                 /\ calls[3] = CellTextCall(<<"N", "a", "m", "e">>, TRUE)
                 /\ calls[8] = CellMoveCall(1, 1, TRUE)
                 /\ calls[9] = CellTextCall(<<"2", "5">>, TRUE)
                 /\ calls[12] = CellMoveCall(2, 1, TRUE)
                 /\ calls[13] = CellTextCall(<<"3", "0">>, TRUE)
                 /\ \A i \in 1..Len(calls) : calls[i].op = "move" => calls[i].a < 3

\* the CSV example, parsed by main, has been filled into a 3x2 table
C10_Witness ==
    /\ prog = "create_table"
    /\ result = "True"
    /\ rows = 3 /\ cols = 2
    /\ data = parse_data_string(ExampleCsv)
    /\ Len(calls) >= 13

----------------------------------------------------------------------------
(* Properties of fill_template *)

\* the find-and-replace-all calls of this run, in order
ReplaceCalls == SelectSeq(calls, LAMBDA c : c.op = "replace_all")

FailedReplaceCalls == SelectSeq(ReplaceCalls, LAMBDA c : ~c.ok)

\* the substitution loop of this run is over
LoopOver ==
    /\ prog = "fill_template"
    /\ \/ pc = "save"
       \/ \E i \in 1..Len(calls) : calls[i].op = "save_as"

\* the substitution pairs of a mapping: per entry, in order, the tight form
\* {{key}} and then the padded form {{ key }}, each with str(value)
SubstitutionPairs(m) ==
    [i \in 1..(2 * Len(m)) |->
        LET key == m[(i + 1) \div 2][1]
            value == m[(i + 1) \div 2][2]
        IN IF i % 2 = 1
           THEN ReplaceAllCall(<<"{", "{">> \o key \o <<"}", "}">>, Str(value), TRUE)
           ELSE ReplaceAllCall(<<"{", "{", " ">> \o key \o <<" ", "}", "}">>,
                               Str(value), TRUE)]

\* C5: whatever calls the session makes fail, fill_template issues, for each
\* (key, value) in mapping order, ({{key}}, str(value)) and then
\* ({{ key }}, str(value)): 2 x |mapping| calls when the loop is over, none
\* for an empty mapping, and a failed call never ends the run.
C5_ReplaceCallSequence ==
    prog = "fill_template" =>
        LET exp == SubstitutionPairs(data)
        IN /\ Len(ReplaceCalls) <= Len(exp)
           /\ \A i \in 1..Len(ReplaceCalls) :
                 [ReplaceCalls[i] EXCEPT !.ok = TRUE] = exp[i]
           /\ LoopOver => Len(ReplaceCalls) = 2 * Len(data)
           /\ (calls # <<>> /\ calls[Len(calls)].op = "replace_all") => pc # "raised"
           /\ (LoopOver /\ data = ExampleMapping) =>
                 /\ ReplaceCalls[1].s = <<"{", "{", "c", "o", "m", "p", "a", "n", "y", "}", "}">>
                 /\ ReplaceCalls[2].s =
                       <<"{", "{", " ", "c", "o", "m", "p", "a", "n", "y", " ", "}", "}">>
                 /\ ReplaceCalls[1].t = <<"A", "B", "C", " ", "C", "o", "r", "p">>
                 /\ ReplaceCalls[2].t = <<"A", "B", "C", " ", "C", "o", "r", "p">>

\* the loop over two entries is over although its first call failed
C5_Witness ==
    /\ LoopOver
    /\ Len(data) = 2
    /\ Len(ReplaceCalls) = 4
    /\ ~ReplaceCalls[1].ok

\* the totals of this run have been printed
Reported == prog = "fill_template" /\ \E i \in 1..Len(calls) : calls[i].op = "save_as"

NoPatternIn(text, m) ==
    \A i \in 1..Len(m) :
        /\ FindStr(text, <<"{", "{">> \o m[i][1] \o <<"}", "}">>) = 0
        /\ FindStr(text, <<"{", "{", " ">> \o m[i][1] \o <<" ", "}", "}">>) = 0

\* the pass of a second run is over, on a document without any occurrence of
\* a generated pattern, the session having reported success for every call
SecondPassOver ==
    /\ LoopOver
    /\ run = 2
    /\ NoPatternIn(template, data)
    /\ FailedReplaceCalls = <<>>

\* C7 as stated: the second run yields 0 applied and 0 failed and leaves the
\* document text unchanged.
C7_SecondRunZeroApplied ==
    SecondPassOver =>
        /\ replaced_count = 0
        /\ Len(FailedReplaceCalls) = 0
        /\ doc = template

\* C7 amended: the second run counts every one of its 2n calls as applied
\* (a call without a match is a success), has 0 failed, and leaves the
\* document text unchanged.
C7_SecondRunNoOp ==
    SecondPassOver =>
        /\ replaced_count = 2 * Len(data)
        /\ Len(FailedReplaceCalls) = 0
        /\ doc = template
        /\ Reported => report = {<<"applied", 2 * Len(data)>>}

\* a second pass over a document in which the first run put a value
C7_Witness ==
    /\ SecondPassOver
    /\ Len(data) >= 1
    /\ FindStr(template, Str(data[1][2])) # 0

\* C9: a failed find-and-replace-all is never fatal: save-as is invoked at
\* most once, only after all 2n replace calls; when open and save-as succeed
\* the result is True whatever replace calls failed; a failed open or
\* save-as makes the result False.
C9_ReplaceFailuresNotFatal ==
    prog = "fill_template" =>
        /\ \A i \in 1..Len(calls) :
              /\ calls[i].op = "save_as" =>
                    /\ i = Len(calls)
                    /\ Len(ReplaceCalls) = 2 * Len(data)
              /\ (calls[i].op = "replace_all" /\ ~calls[i].ok) =>
                    (i = Len(calls) => pc \in {"replace", "save"} /\ result = "none")
              /\ (calls[i].op \in {"open", "save_as"} /\ ~calls[i].ok) =>
                    pc = "raised" /\ result = "False"
        /\ result = "True" <=>
              /\ \E i \in 1..Len(calls) : calls[i].op = "open" /\ calls[i].ok
              /\ \E i \in 1..Len(calls) : calls[i].op = "save_as" /\ calls[i].ok

\* the run returned True although every replace call failed
C9_Witness ==
    /\ prog = "fill_template"
    /\ result = "True"
    /\ Len(data) = 2
    /\ Len(FailedReplaceCalls) = 4

----------------------------------------------------------------------------
(* Properties of extract_first_markdown_table, read off the state after main *)
(* has called it on the text of the input file                              *)

\* extract_first_markdown_table has returned in this run
Extracted == prog = "markdown" /\ pc # "main" /\ args.markdown = <<>> /\ args.input = "file"

\* a line that begins with a pipe character (and goes on after it)
PipeLine(line) == Len(line) >= 2 /\ line[1] = Pipe

\* the first maximal run of consecutive lines that each begin with a pipe
FirstPipeRun(lines) ==
    LET first == CHOOSE i \in 1..Len(lines) :
                    PipeLine(lines[i]) /\ \A k \in 1..(i - 1) : ~PipeLine(lines[k])
        last == CHOOSE j \in first..Len(lines) :
                    /\ \A k \in first..j : PipeLine(lines[k])
                    /\ j = Len(lines) \/ ~PipeLine(lines[j + 1])
    IN SubSeq(lines, first, last)

\* the lines of a text, a final newline not starting another line
LinesOf(text) ==
    Split(IF text # <<>> /\ text[Len(text)] = NL
          THEN SubSeq(text, 1, Len(text) - 1) ELSE text, <<NL>>)

\* C11: extract_first_markdown_table returns the first maximal run of
\* consecutive lines that each begin with a pipe character, and None if and
\* only if no line of the text begins with a pipe, also when the run's last
\* line is the last line of the text and has no trailing newline.
C11_ExtractsFirstPipeRun ==
    Extracted =>
        LET lines == LinesOf(args.content)
        IN /\ extracted.found <=> \E i \in 1..Len(lines) : PipeLine(lines[i])
           /\ extracted.found => LinesOf(extracted.text) = FirstPipeRun(lines)

----------------------------------------------------------------------------
(* Properties of the fill loop of create_hwp_table_from_markdown *)

\* C12: whatever Grid was parsed (ragged ones with a later row longer than
\* the first included), every move-to-cell(r, c) and the set-cell-text after
\* it stay inside the shape given to create-table: r < rows and c < cols.
C12_MarkdownFillInsideShape ==
    prog = "markdown" =>
        \A i \in 1..Len(calls) :
            calls[i].op = "move" =>
                /\ \E k \in 1..(i - 1) :
                      calls[k] = TableCreateCall(rows, cols, TRUE)
                /\ calls[i].a < rows
                /\ calls[i].b < cols

====
